---------------------------- MODULE Spec2Model ----------------------------
(***************************************************************************)
(* Stock Trades REST API: the dual-token JWT authentication scheme, the    *)
(* authorization gate in front of the trade routes, the account routes     *)
(* (signup, login, token refresh) and the append-only trade routes.        *)
(*                                                                         *)
(* Time is counted in clock ticks.  A password is a sequence of character  *)
(* codes, so that its length is Len; the empty sequence stands for a       *)
(* missing or empty field (Joi's string().required() rejects both).        *)
(* A response stays in `last` until the client has received it (Deliver);  *)
(* the next request is sent after that.                                    *)
(***************************************************************************)
EXTENDS Integers, Sequences, FiniteSets, TLC

\* ------------------------------------------------------------------ bounds
MaxTime == 2
MaxSignups == 2
MaxTrades == 2
MaxHeld == 1

\* ------------------------------------------------- configuration (env vars)
\* process.env.JWT_ACCESS_SECRET and process.env.JWT_REFRESH_SECRET: two
\* separately configured secrets.
JWT_ACCESS_SECRET == "access-secret"
JWT_REFRESH_SECRET == "refresh-secret"
\* process.env.JWT_ACCESS_EXPIRY || '10m' and JWT_REFRESH_EXPIRY || '7d',
\* in clock ticks (the access token is the shorter lived of the two).
JWT_ACCESS_EXPIRY == 1
JWT_REFRESH_EXPIRY == 2

VARIABLES
    users,      \* the users table: set of [id, email, password]
    nextUserId, \* AUTO_INCREMENT counter of the users table
    trades,     \* the trades table in id order: sequence of trade rows
    now,        \* the wall clock
    signups,    \* the POST /signup requests: slot -> [pc, email, password, status]
    held,       \* tokens the clients hold (returned to them by the service)
    last        \* the last request answered and its response

vars == <<users, nextUserId, trades, now, signups, held, last>>

\* ----------------------------------------------------------- input domains
Emails == {"a@b.com", "c@d.com"}
EmailInputs == Emails \cup {"invalid-email"}
ShortPassword == <<1, 2, 3>>
Password1 == <<1, 2, 3, 4, 5, 6>>
Password2 == <<1, 2, 3, 4, 5, 7>>
\* signups choose Password1 or a too short one; logins also try Password2
SignupBodies == [email : EmailInputs, password : {Password1, ShortPassword}]
LoginBodies == [email : EmailInputs, password : {Password1, Password2, <<>>}]

\* ------------------------------------------------------------------ tokens
\* A token string.  kind "jwt" is a three-part JWT whose header and payload
\* decode; sig names the secret its signature was made with.
NoNbf == 0
EmptyTok == [kind |-> "empty", sig |-> "", payload |-> [userId |-> 0], exp |-> 0, nbf |-> NoNbf]
MalformedTok == [kind |-> "malformed", sig |-> "", payload |-> [userId |-> 0], exp |-> 0, nbf |-> NoNbf]
\* a well-formed JWT signed with a secret the service does not use
ForgedTok == [kind |-> "jwt", sig |-> "attacker-secret",
              payload |-> [userId |-> 1, email |-> "a@b.com"], exp |-> MaxTime + 2, nbf |-> NoNbf]
ForeignToks == {MalformedTok, ForgedTok}

\* jwt.sign(payload, secret, {expiresIn}) at time t
jwtSign(payload, secret, expiresIn, t) ==
    [kind |-> "jwt", sig |-> secret, payload |-> payload, exp |-> t + expiresIn, nbf |-> NoNbf]

\* jwt.verify(token, secret) at time t: the decoded claims, or the error thrown.
\* The library checks the shape, then the signature, then nbf, then exp.
jwtVerify(token, secret, t) ==
    IF token.kind # "jwt" THEN [ok |-> FALSE, name |-> "JsonWebTokenError"]
    ELSE IF token.sig # secret THEN [ok |-> FALSE, name |-> "JsonWebTokenError"]
    ELSE IF token.nbf > t THEN [ok |-> FALSE, name |-> "NotBeforeError"]
    ELSE IF t >= token.exp THEN [ok |-> FALSE, name |-> "TokenExpiredError"]
    ELSE [ok |-> TRUE, name |-> "", decoded |-> token.payload]

generateAccessToken(payload, t) == jwtSign(payload, JWT_ACCESS_SECRET, JWT_ACCESS_EXPIRY, t)

generateRefreshToken(payload, t) == jwtSign(payload, JWT_REFRESH_SECRET, JWT_REFRESH_EXPIRY, t)

\* mutant: the access verifier checks against the refresh secret
verifyAccessToken_RefreshSecret(token, t) == jwtVerify(token, JWT_REFRESH_SECRET, t)

verifyAccessToken(token, t) == jwtVerify(token, JWT_ACCESS_SECRET, t)

verifyRefreshToken(token, t) == jwtVerify(token, JWT_REFRESH_SECRET, t)

\* ------------------------------------------------------------- credentials
\* bcrypt.hash(password, 12): a string that starts with the bcrypt marker
\* (code 0, which no password holds) and is longer than the password
bcryptHash(password) == <<0>> \o password

\* bcrypt.compare(password, hash)
bcryptCompare(password, hash) == hash = bcryptHash(password)

\* --------------------------------------------------------------- responses
Resp(status, body) == [status |-> status, body |-> body]

ErrorResp(status, msg) == Resp(status, [error |-> msg])

\* mutant: the handler does not know the store's unique-constraint error
errorHandler_NoConflict(err) ==
    IF err.code = "P2025" THEN ErrorResp(404, "Record not found")
    ELSE IF err.name = "JsonWebTokenError" THEN ErrorResp(401, "Invalid token")
    ELSE IF err.name = "TokenExpiredError" THEN ErrorResp(401, "Token expired")
    ELSE ErrorResp(IF err.status # 0 THEN err.status ELSE 500,
                   IF err.message # "" THEN err.message ELSE "Internal server error")

\* Global error handler under process.env.NODE_ENV = env.  err is
\* [code, name, status, message, stack]; "" and 0 stand for a field that is
\* missing or falsy.  res.json leaves out a stack that is undefined.
errorHandlerIn(env, err) ==
    IF err.code = "P2002"
    THEN Resp(409, [error |-> "Unique constraint violation",
                    details |-> "A record with this data already exists"])
    ELSE IF err.code = "P2025" THEN ErrorResp(404, "Record not found")
    ELSE IF err.name = "JsonWebTokenError" THEN ErrorResp(401, "Invalid token")
    ELSE IF err.name = "TokenExpiredError" THEN ErrorResp(401, "Token expired")
    ELSE LET status == IF err.status # 0 THEN err.status ELSE 500
             message == IF err.message # "" THEN err.message ELSE "Internal server error"
         IN IF env = "development" /\ err.stack # ""
            THEN Resp(status, [error |-> message, stack |-> err.stack])
            ELSE ErrorResp(status, message)

\* process.env.NODE_ENV of the service the requests are sent to
NODE_ENV == "test"

\* Global error handler of the running service
errorHandler(err) == errorHandlerIn(NODE_ENV, err)

\* errors thrown by the Prisma client and by jsonwebtoken
UniqueConstraintError == [code |-> "P2002", name |-> "PrismaClientKnownRequestError",
                          status |-> 0, message |-> "Unique constraint failed",
                          stack |-> "at create"]
ForeignKeyError == [code |-> "P2003", name |-> "PrismaClientKnownRequestError",
                    status |-> 0, message |-> "Foreign key constraint failed",
                    stack |-> "at create"]
JwtError(name) == [code |-> "", name |-> name, status |-> 0, message |-> "jwt error",
                   stack |-> "at verify"]

\* -------------------------------------------------------------- validation
isEmail(e) == e \in Emails

signupSchema(body) == isEmail(body.email) /\ Len(body.password) >= 6

loginSchema(body) == isEmail(body.email) /\ Len(body.password) >= 1

\* validate(schema) middleware: answers 400 when the schema rejects
ValidationFailed == ErrorResp(400, "Validation failed")

\* -------------------------------------------------------------- user store
\* prisma.user.findUnique({where: {email}}): the row, or the empty set for null
findUserByEmail(email) == {u \in users : u.email = email}

\* prisma.user.findUnique({where: {id}})
findUserById(id) == {u \in users : u.id = id}

\* ------------------------------------------------------------ the client
\* the tokens an answer carries: only the account routes return any
TokensOf(answer) ==
    IF answer.ep \notin {"signup", "login", "refresh"} \/ answer.resp.status \notin {200, 201} THEN {}
    ELSE {answer.resp.body[f] : f \in (DOMAIN answer.resp.body) \cap {"accessToken", "refreshToken"}}

\* What the client holds after a response that carries toks: within its
\* capacity, any of the tokens it held and of the new ones.
Keeps(toks) ==
    IF toks = {} THEN {held}
    ELSE {K \in SUBSET (held \cup toks) : Cardinality(K) <= MaxHeld}

NoAnswer == [ep |-> "none", req |-> <<>>, resp |-> [status |-> 0, body |-> <<>>]]

\* no response is on its way to the client: the next request can be sent
Idle == last = NoAnswer

\* what a client can send as a token: one it holds, or one it made up
Presentable == held \cup ForeignToks

Answer(ep, req, resp) == [ep |-> ep, req |-> req, resp |-> resp]

Init ==
    /\ users = {}
    /\ nextUserId = 1
    /\ trades = <<>>
    /\ now = 0
    /\ signups = [s \in 1..MaxSignups |-> [pc |-> "idle", email |-> "", password |-> <<>>, status |-> 0]]
    /\ held = {}
    /\ last = NoAnswer

\* ------------------------------------------------------------ POST /signup
\* validate(signupSchema) answered 400
SignupInvalid(body) ==
    /\ Idle
    /\ ~signupSchema(body)
    /\ last' = Answer("signup", body, ValidationFailed)
    /\ UNCHANGED <<users, nextUserId, trades, now, signups, held>>

\* The handler up to its first await: the existence check.
SignupCheck(s, body) ==
    /\ Idle
    /\ signups[s].pc = "idle"
    /\ signupSchema(body)
    /\ IF findUserByEmail(body.email) # {}
       THEN /\ signups' = [signups EXCEPT ![s] = [pc |-> "done", email |-> body.email,
                                                   password |-> <<>>, status |-> 409]]
            /\ last' = Answer("signup", body, ErrorResp(409, "User with this email already exists"))
       ELSE /\ signups' = [signups EXCEPT ![s] = [pc |-> "create", email |-> body.email,
                                                   password |-> body.password, status |-> 0]]
            /\ UNCHANGED last
    /\ UNCHANGED <<users, nextUserId, trades, now, held>>

\* mutant: the two tokens are returned under each other's name
SignupCreated_Swapped(user, t) ==
    Resp(201, [message |-> "User created successfully",
               user |-> [id |-> user.id, email |-> user.email],
               accessToken |-> generateRefreshToken([userId |-> user.id], t),
               refreshToken |-> generateAccessToken([userId |-> user.id, email |-> user.email], t)])

\* mutant: create returns the whole row (no select) and the response
\* carries it
SignupCreated_WholeRow(user, t) ==
    Resp(201, [message |-> "User created successfully",
               user |-> user,
               accessToken |-> generateAccessToken([userId |-> user.id, email |-> user.email], t),
               refreshToken |-> generateRefreshToken([userId |-> user.id], t)])

\* The response of a signup whose user row was created
SignupCreated(user, t) ==
    Resp(201, [message |-> "User created successfully",
               user |-> [id |-> user.id, email |-> user.email],
               accessToken |-> generateAccessToken([userId |-> user.id, email |-> user.email], t),
               refreshToken |-> generateRefreshToken([userId |-> user.id], t)])

\* prisma.user.create: does the unique index on email admit the row?
UniqueEmailAdmits(email) == findUserByEmail(email) = {}

\* The rest of the handler: hash, prisma.user.create, tokens, response; the
\* unique index on users.email makes create throw P2002, which next(error)
\* hands to the error handler.
SignupCreate(s) ==
    /\ Idle
    /\ signups[s].pc = "create"
    /\ LET body == [email |-> signups[s].email, password |-> signups[s].password]
           user == [id |-> nextUserId, email |-> body.email, password |-> bcryptHash(body.password)]
       IN IF UniqueEmailAdmits(body.email)
          THEN LET resp == SignupCreated(user, now)
               IN /\ users' = users \cup {user}
                  /\ nextUserId' = nextUserId + 1
                  /\ signups' = [signups EXCEPT ![s].pc = "done", ![s].password = <<>>, ![s].status = 201]
                  /\ last' = Answer("signup", body, resp)
          ELSE LET resp == errorHandler(UniqueConstraintError)
               IN /\ signups' = [signups EXCEPT ![s].pc = "done", ![s].password = <<>>, ![s].status = resp.status]
                  /\ last' = Answer("signup", body, resp)
                  /\ UNCHANGED <<users, nextUserId>>
    /\ UNCHANGED <<trades, now, held>>

\* ------------------------------------------------------------- POST /login
\* mutant: an unknown e-mail gets an answer of its own
loginHandler_UserNotFound(body, t) ==
    IF ~loginSchema(body) THEN ValidationFailed
    ELSE IF findUserByEmail(body.email) = {} THEN ErrorResp(404, "User not found")
    ELSE LET user == CHOOSE u \in findUserByEmail(body.email) : TRUE
         IN IF ~bcryptCompare(body.password, user.password)
            THEN ErrorResp(401, "Invalid email or password")
            ELSE Resp(200, [message |-> "Login successful",
                            user |-> [id |-> user.id, email |-> user.email],
                            accessToken |-> generateAccessToken([userId |-> user.id, email |-> user.email], t),
                            refreshToken |-> generateRefreshToken([userId |-> user.id], t)])

loginHandler(body, t) ==
    IF ~loginSchema(body) THEN ValidationFailed
    ELSE IF findUserByEmail(body.email) = {} THEN ErrorResp(401, "Invalid email or password")
    ELSE LET user == CHOOSE u \in findUserByEmail(body.email) : TRUE
         IN IF ~bcryptCompare(body.password, user.password)
            THEN ErrorResp(401, "Invalid email or password")
            ELSE Resp(200, [message |-> "Login successful",
                            user |-> [id |-> user.id, email |-> user.email],
                            accessToken |-> generateAccessToken([userId |-> user.id, email |-> user.email], t),
                            refreshToken |-> generateRefreshToken([userId |-> user.id], t)])

Login(body) ==
    LET resp == loginHandler(body, now)
    IN /\ Idle
       /\ last' = Answer("login", body, resp)
       /\ UNCHANGED <<users, nextUserId, trades, now, signups, held>>

\* ----------------------------------------------------- POST /token/refresh
\* mutant: the refresh token is rotated, a new one is returned with the
\* access token
refreshHandler_Rotates(body, t) ==
    IF "refreshToken" \notin DOMAIN body \/ body.refreshToken.kind = "empty"
    THEN ErrorResp(401, "Refresh token required")
    ELSE LET v == verifyRefreshToken(body.refreshToken, t)
         IN IF ~v.ok
            THEN IF v.name = "TokenExpiredError" THEN ErrorResp(401, "Refresh token expired")
                 ELSE IF v.name = "JsonWebTokenError" THEN ErrorResp(401, "Invalid refresh token")
                 ELSE errorHandler(JwtError(v.name))
            ELSE IF findUserById(v.decoded.userId) = {} THEN ErrorResp(401, "User not found")
            ELSE LET user == CHOOSE u \in findUserById(v.decoded.userId) : TRUE
                 IN Resp(200, [accessToken |->
                                   generateAccessToken([userId |-> user.id, email |-> user.email], t),
                               refreshToken |-> generateRefreshToken([userId |-> user.id], t)])

\* mutant: every verification failure is reported as an invalid token
refreshHandler_ExpiredIsInvalid(body, t) ==
    IF "refreshToken" \notin DOMAIN body \/ body.refreshToken.kind = "empty"
    THEN ErrorResp(401, "Refresh token required")
    ELSE LET v == verifyRefreshToken(body.refreshToken, t)
         IN IF ~v.ok THEN ErrorResp(401, "Invalid refresh token")
            ELSE IF findUserById(v.decoded.userId) = {} THEN ErrorResp(401, "User not found")
            ELSE LET user == CHOOSE u \in findUserById(v.decoded.userId) : TRUE
                 IN Resp(200, [accessToken |->
                        generateAccessToken([userId |-> user.id, email |-> user.email], t)])

\* body is [refreshToken |-> token], or [none |-> TRUE] for no refreshToken
refreshHandler(body, t) ==
    IF "refreshToken" \notin DOMAIN body \/ body.refreshToken.kind = "empty"
    THEN ErrorResp(401, "Refresh token required")
    ELSE LET v == verifyRefreshToken(body.refreshToken, t)
         IN IF ~v.ok
            THEN IF v.name = "TokenExpiredError" THEN ErrorResp(401, "Refresh token expired")
                 ELSE IF v.name = "JsonWebTokenError" THEN ErrorResp(401, "Invalid refresh token")
                 ELSE errorHandler(JwtError(v.name))
            ELSE IF findUserById(v.decoded.userId) = {} THEN ErrorResp(401, "User not found")
            ELSE LET user == CHOOSE u \in findUserById(v.decoded.userId) : TRUE
                 IN Resp(200, [accessToken |->
                        generateAccessToken([userId |-> user.id, email |-> user.email], t)])

Refresh(body) ==
    LET resp == refreshHandler(body, now)
    IN /\ Idle
       /\ last' = Answer("refresh", body, resp)
       /\ UNCHANGED <<users, nextUserId, trades, now, signups, held>>

\* -------------------------------------------------------------- Auth Gate
\* An Authorization header.  The header string is its scheme word followed
\* by the words of parts, separated by single spaces; parts = <<>> is a
\* header of one word, and EmptyTok as a part is the empty string that
\* split(' ') yields after a trailing space.
NoHeader == [present |-> FALSE, scheme |-> "", parts |-> <<>>]
Header(scheme, parts) == [present |-> TRUE, scheme |-> scheme, parts |-> parts]

\* authHeader && authHeader.split(' ')[1]; EmptyTok for undefined and for ''
headerToken(header) ==
    IF ~header.present THEN EmptyTok
    ELSE IF Len(header.parts) = 0 THEN EmptyTok
    ELSE header.parts[1]

\* mutant: the expired case is not told apart from the invalid one
authenticateToken_ExpiredIsInvalid(header, t) ==
    LET token == headerToken(header)
    IN IF token.kind = "empty"
       THEN [next |-> FALSE, resp |-> ErrorResp(401, "Access token required")]
       ELSE LET v == verifyAccessToken(token, t)
            IN IF v.ok THEN [next |-> TRUE, user |-> v.decoded]
               ELSE IF v.name \in {"TokenExpiredError", "JsonWebTokenError"}
                    THEN [next |-> FALSE, resp |-> ErrorResp(401, "Invalid access token")]
               ELSE [next |-> FALSE, resp |-> ErrorResp(500, "Token verification failed")]

\* mutant: the gate looks the account of the token up in the user store
authenticateToken_ChecksAccount(header, t) ==
    LET token == headerToken(header)
    IN IF token.kind = "empty"
       THEN [next |-> FALSE, resp |-> ErrorResp(401, "Access token required")]
       ELSE LET v == verifyAccessToken(token, t)
            IN IF v.ok
               THEN IF findUserById(v.decoded.userId) = {}
                    THEN [next |-> FALSE, resp |-> ErrorResp(401, "Invalid access token")]
                    ELSE [next |-> TRUE, user |-> v.decoded]
               ELSE IF v.name = "TokenExpiredError"
                    THEN [next |-> FALSE, resp |-> ErrorResp(401, "Access token expired")]
               ELSE IF v.name = "JsonWebTokenError"
                    THEN [next |-> FALSE, resp |-> ErrorResp(401, "Invalid access token")]
               ELSE [next |-> FALSE, resp |-> ErrorResp(500, "Token verification failed")]

\* authenticateToken: next is TRUE when the request goes on to the route,
\* with req.user = user; otherwise resp is the answer.
authenticateToken(header, t) ==
    LET token == headerToken(header)
    IN IF token.kind = "empty"
       THEN [next |-> FALSE, resp |-> ErrorResp(401, "Access token required")]
       ELSE LET v == verifyAccessToken(token, t)
            IN IF v.ok THEN [next |-> TRUE, user |-> v.decoded]
               ELSE IF v.name = "TokenExpiredError"
                    THEN [next |-> FALSE, resp |-> ErrorResp(401, "Access token expired")]
               ELSE IF v.name = "JsonWebTokenError"
                    THEN [next |-> FALSE, resp |-> ErrorResp(401, "Invalid access token")]
               ELSE [next |-> FALSE, resp |-> ErrorResp(500, "Token verification failed")]

\* ------------------------------------------------------------- trade store
TradeTypes == {"buy", "sell"}

\* String.prototype.toUpperCase on the ticker symbols of the model
toUpperCase(symbol) ==
    CASE symbol = "aapl" -> "AAPL"
      [] symbol = "Goog" -> "GOOG"
      [] OTHER -> symbol

\* A JSON number: i + f/10 with i its floor and f its first decimal.
Number(i, f) == [i |-> i, f |-> f]

\* Joi's number().integer(), .positive(), .min(k) and .max(k)
isInteger(n) == n.f = 0
isPositive(n) == n.i > 0 \/ (n.i = 0 /\ n.f > 0)
atLeast(n, k) == n.i >= k
atMost(n, k) == n.i < k \/ (n.i = k /\ n.f = 0)

\* mutant: the schema has no upper limit on shares
createTradeSchema_NoMax(body) ==
    /\ "type" \in DOMAIN body /\ body.type \in TradeTypes
    /\ "user_id" \in DOMAIN body /\ isInteger(body.user_id) /\ isPositive(body.user_id)
    /\ "symbol" \in DOMAIN body /\ body.symbol # ""
    /\ "shares" \in DOMAIN body /\ isInteger(body.shares) /\ atLeast(body.shares, 1)
    /\ "price" \in DOMAIN body /\ isPositive(body.price)

\* A body is a record of the keys that are present; .required() wants the key.
createTradeSchema(body) ==
    /\ "type" \in DOMAIN body /\ body.type \in TradeTypes
    /\ "user_id" \in DOMAIN body /\ isInteger(body.user_id) /\ isPositive(body.user_id)
    /\ "symbol" \in DOMAIN body /\ body.symbol # ""
    /\ "shares" \in DOMAIN body /\ isInteger(body.shares)
                                /\ atLeast(body.shares, 1) /\ atMost(body.shares, 100)
    /\ "price" \in DOMAIN body /\ isPositive(body.price)

\* the values of user_id in a query and of :id in a path are the numbers
\* their strings denote
tradeQuerySchema(query) ==
    /\ "type" \in DOMAIN query => query.type \in TradeTypes
    /\ "user_id" \in DOMAIN query => isInteger(query.user_id) /\ isPositive(query.user_id)

\* mutant: the id schema does not ask for an integer
tradeIdSchema_AnyNumber(params) == isPositive(params.id)

tradeIdSchema(params) == isInteger(params.id) /\ isPositive(params.id)

\* parseInt: the integer part of the number
parseInt(n) == IF n.i < 0 /\ n.f > 0 THEN n.i + 1 ELSE n.i

\* the API format of a trade row
tradeResponse(trade) ==
    [id |-> trade.id, type |-> trade.type, user_id |-> trade.userId, symbol |-> trade.symbol,
     shares |-> trade.shares, price |-> trade.price, timestamp |-> trade.timestamp]

\* parseFloat of a number is that number
parseFloat(n) == n

\* mutant: the symbol is stored as it was sent
newTrade_RawSymbol(body, t) ==
    [id |-> Len(trades) + 1, type |-> body.type, userId |-> body.user_id.i,
     symbol |-> body.symbol, shares |-> body.shares.i,
     price |-> parseFloat(body.price), timestamp |-> t]

\* the row prisma.trade.create inserts for a validated body at time t; the
\* Int columns userId and shares hold the integers the schema let through
newTrade(body, t) ==
    [id |-> Len(trades) + 1, type |-> body.type, userId |-> body.user_id.i,
     symbol |-> toUpperCase(body.symbol), shares |-> body.shares.i,
     price |-> parseFloat(body.price), timestamp |-> t]

\* the foreign key trades.user_id -> users.id
ForeignKeyAdmits(userId) == findUserById(userId) # {}

\* mutant: the body is validated before the gate runs
postTrade_ValidatesFirst(header, body, t) ==
    LET g == authenticateToken(header, t)
    IN IF ~createTradeSchema(body) THEN [resp |-> ValidationFailed, trades |-> trades]
       ELSE IF ~g.next THEN [resp |-> g.resp, trades |-> trades]
       ELSE IF ~ForeignKeyAdmits(body.user_id.i)
            THEN [resp |-> errorHandler(ForeignKeyError), trades |-> trades]
       ELSE [resp |-> Resp(201, tradeResponse(newTrade(body, t))),
             trades |-> Append(trades, newTrade(body, t))]

\* mutant: the row is written before the gate's verdict is looked at
postTrade_WritesFirst(header, body, t) ==
    LET g == authenticateToken(header, t)
    IN IF ~createTradeSchema(body) THEN [resp |-> IF g.next THEN ValidationFailed ELSE g.resp,
                                         trades |-> trades]
       ELSE IF ~ForeignKeyAdmits(body.user_id.i)
            THEN [resp |-> IF g.next THEN errorHandler(ForeignKeyError) ELSE g.resp,
                  trades |-> trades]
       ELSE [resp |-> IF g.next THEN Resp(201, tradeResponse(newTrade(body, t))) ELSE g.resp,
             trades |-> Append(trades, newTrade(body, t))]

\* mutant: a caller may create trades for its own account only
postTrade_OwnAccountOnly(header, body, t) ==
    LET g == authenticateToken(header, t)
    IN IF ~g.next THEN [resp |-> g.resp, trades |-> trades]
       ELSE IF ~createTradeSchema(body) THEN [resp |-> ValidationFailed, trades |-> trades]
       ELSE IF body.user_id.i # g.user.userId
            THEN [resp |-> ErrorResp(403, "Forbidden"), trades |-> trades]
       ELSE IF ~ForeignKeyAdmits(body.user_id.i)
            THEN [resp |-> errorHandler(ForeignKeyError), trades |-> trades]
       ELSE [resp |-> Resp(201, tradeResponse(newTrade(body, t))),
             trades |-> Append(trades, newTrade(body, t))]

\* POST /trades: the response, and the trades table afterwards
postTrade(header, body, t) ==
    LET g == authenticateToken(header, t)
    IN IF ~g.next THEN [resp |-> g.resp, trades |-> trades]
       ELSE IF ~createTradeSchema(body) THEN [resp |-> ValidationFailed, trades |-> trades]
       ELSE IF ~ForeignKeyAdmits(body.user_id.i)
            THEN [resp |-> errorHandler(ForeignKeyError), trades |-> trades]
       ELSE [resp |-> Resp(201, tradeResponse(newTrade(body, t))),
             trades |-> Append(trades, newTrade(body, t))]

\* the filter conditions built from the query; 0 and "" stand for no condition
whereOf(query) ==
    [type |-> IF "type" \in DOMAIN query THEN query.type ELSE "",
     userId |-> IF "user_id" \in DOMAIN query THEN parseInt(query.user_id) ELSE 0]

\* mutant: a row matches when it meets any one of the conditions given
RECURSIVE findMany_AnyFilter(_, _)
findMany_AnyFilter(rows, where) ==
    IF rows = <<>> THEN <<>>
    ELSE LET row == Head(rows)
             match == \/ where.type = "" /\ where.userId = 0
                      \/ where.type # "" /\ row.type = where.type
                      \/ where.userId # 0 /\ row.userId = where.userId
         IN IF match THEN <<row>> \o findMany_AnyFilter(Tail(rows), where)
            ELSE findMany_AnyFilter(Tail(rows), where)

\* prisma.trade.findMany({where, orderBy: {id: 'asc'}}) over the table in
\* id order
RECURSIVE findMany(_, _)
findMany(rows, where) ==
    IF rows = <<>> THEN <<>>
    ELSE LET row == Head(rows)
             match == /\ where.type # "" => row.type = where.type
                      /\ where.userId # 0 => row.userId = where.userId
         IN IF match THEN <<row>> \o findMany(Tail(rows), where)
            ELSE findMany(Tail(rows), where)

\* GET /trades
getTrades(header, query, t) ==
    LET g == authenticateToken(header, t)
    IN IF ~g.next THEN g.resp
       ELSE IF ~tradeQuerySchema(query) THEN ValidationFailed
       ELSE LET rows == findMany(trades, whereOf(query))
            IN Resp(200, [i \in 1..Len(rows) |-> tradeResponse(rows[i])])

\* GET /trades/:id
getTradeById(header, id, t) ==
    LET g == authenticateToken(header, t)
    IN IF ~g.next THEN g.resp
       ELSE IF ~tradeIdSchema([id |-> id]) THEN ValidationFailed
       ELSE LET found == {i \in 1..Len(trades) : trades[i].id = parseInt(id)}
            IN IF found = {} THEN ErrorResp(404, "Trade not found")
               ELSE Resp(200, tradeResponse(trades[CHOOSE i \in found : TRUE]))

MethodNotAllowed(message) == Resp(405, [error |-> "Method not allowed", message |-> message])

\* mutant: a PUT or PATCH on an id without record is answered 404
putTrade_NotFound(header, id, t) ==
    LET g == authenticateToken(header, t)
    IN IF ~g.next THEN [resp |-> g.resp, trades |-> trades]
       ELSE IF id \notin 1..Len(trades)
            THEN [resp |-> ErrorResp(404, "Trade not found"), trades |-> trades]
       ELSE [resp |-> MethodNotAllowed("Trade modification is not permitted"), trades |-> trades]

\* PUT /trades/:id and PATCH /trades/:id
putTrade(header, id, t) ==
    LET g == authenticateToken(header, t)
    IN IF ~g.next THEN [resp |-> g.resp, trades |-> trades]
       ELSE [resp |-> MethodNotAllowed("Trade modification is not permitted"), trades |-> trades]

\* mutant: DELETE removes the row
deleteTrade_Removes(header, id, t) ==
    LET g == authenticateToken(header, t)
    IN IF ~g.next THEN [resp |-> g.resp, trades |-> trades]
       ELSE [resp |-> Resp(200, [message |-> "Trade deleted"]),
             trades |-> SelectSeq(trades, LAMBDA row : row.id # id)]

\* DELETE /trades/:id
deleteTrade(header, id, t) ==
    LET g == authenticateToken(header, t)
    IN IF ~g.next THEN [resp |-> g.resp, trades |-> trades]
       ELSE [resp |-> MethodNotAllowed("Trade deletion is not permitted"), trades |-> trades]

\* what the observer records of a request to a trade route
TradeReq(header, input) == [header |-> header, input |-> input]

PostTrade(header, body) ==
    LET r == postTrade(header, body, now)
    IN /\ Idle
       /\ Len(trades) < MaxTrades \/ r.trades = trades
       /\ trades' = r.trades
       /\ last' = Answer("POST /trades", TradeReq(header, body), r.resp)
       /\ UNCHANGED <<users, nextUserId, now, signups, held>>

GetTrades(header, query) ==
    /\ Idle
    /\ last' = Answer("GET /trades", TradeReq(header, query), getTrades(header, query, now))
    /\ UNCHANGED <<users, nextUserId, trades, now, signups, held>>

GetTradeById(header, id) ==
    /\ Idle
    /\ last' = Answer("GET /trades/:id", TradeReq(header, id), getTradeById(header, id, now))
    /\ UNCHANGED <<users, nextUserId, trades, now, signups, held>>

PutTrade(header, id) ==
    LET r == putTrade(header, id, now)
    IN /\ Idle
       /\ trades' = r.trades
       /\ last' = Answer("PUT /trades/:id", TradeReq(header, id), r.resp)
       /\ UNCHANGED <<users, nextUserId, now, signups, held>>

PatchTrade(header, id) ==
    LET r == putTrade(header, id, now)
    IN /\ Idle
       /\ trades' = r.trades
       /\ last' = Answer("PATCH /trades/:id", TradeReq(header, id), r.resp)
       /\ UNCHANGED <<users, nextUserId, now, signups, held>>

DeleteTrade(header, id) ==
    LET r == deleteTrade(header, id, now)
    IN /\ Idle
       /\ trades' = r.trades
       /\ last' = Answer("DELETE /trades/:id", TradeReq(header, id), r.resp)
       /\ UNCHANGED <<users, nextUserId, now, signups, held>>

\* ------------------------------------------------- inputs of trade requests
Headers ==
    {NoHeader, Header("Bearer", <<>>)}
    \cup {Header("Bearer", <<tok>>) : tok \in Presentable}
    \cup {Header("Basic", <<tok>>) : tok \in held}

\* a body with all five keys, its numbers integers but for the price
TradeBody(type, user_id, symbol, shares, price) ==
    [type |-> type, user_id |-> Number(user_id, 0), symbol |-> symbol,
     shares |-> Number(shares, 0), price |-> price]

\* bodies the schema lets through; no account has id MaxSignups + 1
GoodBodies ==
    {TradeBody("buy", 1, "aapl", 1, Number(150, 2)),
     TradeBody("sell", 1, "Goog", 100, Number(1, 0)),
     TradeBody("sell", 2, "AAPL", 50, Number(150, 0)),
     TradeBody("buy", MaxSignups + 1, "AAPL", 1, Number(150, 0))}
BadBodies ==
    {TradeBody("hold", 1, "AAPL", 1, Number(150, 0)),
     TradeBody("buy", 0, "AAPL", 1, Number(150, 0)),
     TradeBody("buy", 1, "", 1, Number(150, 0)),
     TradeBody("buy", 1, "AAPL", 0, Number(150, 0)),
     TradeBody("buy", 1, "AAPL", 101, Number(150, 0)),
     TradeBody("buy", 1, "AAPL", 1, Number(0, 0)),
     [type |-> "buy"]}
TradeBodies == GoodBodies \cup BadBodies

TradeQueries ==
    {[none |-> TRUE], [type |-> "buy"], [type |-> "hold"], [user_id |-> Number(1, 0)],
     [type |-> "sell", user_id |-> Number(1, 0)], [user_id |-> Number(1, 5)]}

\* the :id of PUT, PATCH and DELETE, which those routes never read
TradeIds == 0..(MaxTrades + 1)

\* the :id of GET /trades/:id
TradeIdParams == {Number(id, 0) : id \in TradeIds} \cup {Number(1, 5)}

\* A client whose bearer token the gate accepts goes through the inputs of a
\* route; the other requests carry one of a few inputs.
Explores(header) == header.scheme = "Bearer" /\ authenticateToken(header, now).next

BodiesOf(header) ==
    IF Explores(header) THEN TradeBodies
    ELSE {TradeBody("buy", 1, "aapl", 1, Number(150, 2)), [type |-> "buy"]}

QueriesOf(header) == IF Explores(header) THEN TradeQueries ELSE {[none |-> TRUE]}

IdParamsOf(header) == IF Explores(header) THEN TradeIdParams ELSE {Number(1, 0)}

IdsOf(header) == IF Explores(header) THEN TradeIds ELSE {1}

\* The client receives the response and may keep the tokens in it.
Deliver ==
    /\ ~Idle
    /\ last' = NoAnswer
    /\ held' \in Keeps(TokensOf(last))
    /\ UNCHANGED <<users, nextUserId, trades, now, signups>>

\* ------------------------------------------------------------------- clock
Tick ==
    /\ Idle
    /\ now < MaxTime
    /\ now' = now + 1
    /\ UNCHANGED <<users, nextUserId, trades, signups, held, last>>

RefreshBodies == {[none |-> TRUE]} \cup {[refreshToken |-> tok] : tok \in Presentable \cup {EmptyTok}}

\* the account routes
NextAuth ==
    \/ \E body \in SignupBodies : SignupInvalid(body)
    \/ \E s \in 1..MaxSignups, body \in SignupBodies : SignupCheck(s, body)
    \/ \E s \in 1..MaxSignups : SignupCreate(s)
    \/ \E body \in LoginBodies : Login(body)
    \/ \E body \in RefreshBodies : Refresh(body)
    \/ Deliver
    \/ Tick

\* the trade routes
NextTrades ==
    \/ \E header \in Headers : \E body \in BodiesOf(header) : PostTrade(header, body)
    \/ \E header \in Headers : \E query \in QueriesOf(header) : GetTrades(header, query)
    \/ \E header \in Headers : \E id \in IdParamsOf(header) : GetTradeById(header, id)
    \/ \E header \in Headers : \E id \in IdsOf(header) : PutTrade(header, id)
    \/ \E header \in Headers : \E id \in IdsOf(header) : PatchTrade(header, id)
    \/ \E header \in Headers : \E id \in IdsOf(header) : DeleteTrade(header, id)

\* the whole HTTP surface
Next == NextAuth \/ NextTrades

Spec == Init /\ [][Next]_vars

\* The user store is also written from outside the HTTP surface: an
\* operator (or the test suite's clean-up) deletes a user row.  The foreign
\* key of trades restricts the deletion to users without trades.
DeleteUser(u) ==
    /\ Idle
    /\ u \in users
    /\ \A i \in 1..Len(trades) : trades[i].userId # u.id
    /\ users' = users \ {u}
    /\ UNCHANGED <<nextUserId, trades, now, signups, held, last>>

NextStore ==
    \/ Next
    \/ \E u \in users : DeleteUser(u)

SpecStore == Init /\ [][NextStore]_vars

\* The account routes alone.  The trade routes read the users table and
\* the clock and write only the trades table, so they add nothing to what
\* signup, login and refresh can do or answer.
SpecAuth == Init /\ [][NextAuth]_vars

NextAuthStore ==
    \/ NextAuth
    \/ \E u \in users : DeleteUser(u)

SpecAuthStore == Init /\ [][NextAuthStore]_vars

\* ------------------------------------------------- the error handler alone
\* express.json() hands a body it cannot parse to next(err) with status 400
BodyParseError == [code |-> "", name |-> "SyntaxError", status |-> 400,
                   message |-> "Unexpected end of JSON input", stack |-> "at parse"]

\* the errors a middleware or a handler can pass to next(err)
ThrownErrors ==
    [code : {"", "P2002", "P2025", "P2003"},
     name : {"Error", "SyntaxError", "JsonWebTokenError", "TokenExpiredError", "NotBeforeError"},
     status : {0, 400, 500},
     message : {"", "Unexpected end of JSON input"},
     stack : {"", "at parse"}]

Environments == {"development", "production", "test"}

\* next(err) reaches the error handler of a service started under env
Throw(env, err) ==
    /\ last' = Answer("error", [env |-> env, err |-> err], errorHandlerIn(env, err))
    /\ UNCHANGED <<users, nextUserId, trades, now, signups, held>>

NextErrors == \E env \in Environments, err \in ThrownErrors : Throw(env, err)

SpecErrors == Init /\ [][NextErrors]_vars

\* ======================================================================
\* Properties
\* ======================================================================
TradeEps == {"POST /trades", "GET /trades", "GET /trades/:id",
             "PUT /trades/:id", "PATCH /trades/:id", "DELETE /trades/:id"}

TokenRequired == ErrorResp(401, "Access token required")

\* C1: append-only ledger.  No step of the service removes or changes a
\* trade row: every row of the table is still there, field for field, after
\* the step, and the table never shrinks.
C1_AppendOnlyLedger ==
    [][/\ Len(trades') >= Len(trades)
       /\ \A i \in 1..Len(trades) : trades'[i] = trades[i]]_vars

\* a DELETE by an authenticated caller on an existing trade has been answered
C1_Witness ==
    /\ last.ep = "DELETE /trades/:id"
    /\ last.resp.status = 405
    /\ last.req.input \in 1..Len(trades)

BearerForm(header) ==
    /\ header.present
    /\ header.scheme = "Bearer"
    /\ Len(header.parts) = 1
    /\ header.parts[1].kind # "empty"

\* C3 (as claimed): a header that is present but not of the form
\* 'Bearer <token>' is answered 401 'Access token required'.
C3_MalformedHeaderIs401 ==
    (last.ep \in TradeEps /\ last.req.header.present /\ ~BearerForm(last.req.header))
        => last.resp = TokenRequired

\* the answers the gate itself gives
TokenExpired == ErrorResp(401, "Access token expired")
TokenInvalid == ErrorResp(401, "Invalid access token")
VerificationFailed == ErrorResp(500, "Token verification failed")

\* Token strings of every shape the gate can be handed: malformed ones and
\* JWTs signed with the access secret, the refresh secret or a foreign one,
\* with any expiry, some of them not yet valid (nbf in the future).
NotYet == MaxTime + 1
GateTokens ==
    {MalformedTok} \cup
    {[kind |-> "jwt", sig |-> sig, payload |-> [userId |-> 1, email |-> "a@b.com"],
      exp |-> exp, nbf |-> nbf] :
        sig \in {JWT_ACCESS_SECRET, JWT_REFRESH_SECRET, "attacker-secret"},
        exp \in 1..(MaxTime + 2), nbf \in {NoNbf, NotYet}}

\* what the claim says the gate does with a token at time t
GateAnswer(tok, t) ==
    IF tok.kind # "jwt" \/ tok.sig # JWT_ACCESS_SECRET THEN TokenInvalid
    ELSE IF tok.nbf = NoNbf /\ t >= tok.exp THEN TokenExpired
    ELSE IF tok.nbf = NoNbf THEN NoAnswer.resp
    ELSE VerificationFailed

\* C4: the gate tells its failures apart.  A token signed with the access
\* secret and past its expiry is answered 401 'Access token expired'; a
\* malformed token or one not signed with the access secret 401 'Invalid
\* access token'; any other verification failure 500 'Token verification
\* failed'; a token that verifies and is unexpired, and only such a token,
\* goes on to the route with its decoded claims as req.user.
C4_GateOutcomes ==
    /\ \A tok \in GateTokens \cup held :
          LET g == authenticateToken(Header("Bearer", <<tok>>), now)
          IN IF GateAnswer(tok, now) = NoAnswer.resp
             THEN g.next /\ g.user = tok.payload
             ELSE ~g.next /\ g.resp = GateAnswer(tok, now)
    /\ (last.ep \in TradeEps /\ BearerForm(last.req.header)) =>
          LET tok == last.req.header.parts[1]
          IN IF GateAnswer(tok, now) = NoAnswer.resp
             THEN last.resp \notin {TokenRequired, TokenExpired, TokenInvalid, VerificationFailed}
             ELSE last.resp = GateAnswer(tok, now)

\* an access token the service issued, presented after its expiry
C4_Witness ==
    /\ last.ep \in TradeEps
    /\ BearerForm(last.req.header)
    /\ last.req.header.parts[1] \in held
    /\ last.req.header.parts[1].sig = JWT_ACCESS_SECRET
    /\ now >= last.req.header.parts[1].exp
    /\ last.resp = TokenExpired

\* the refresh and access tokens that signup or login issue at time t for
\* the accounts of the store
RefreshTokensAt(t) == {generateRefreshToken([userId |-> u.id], t) : u \in users}
AccessTokensAt(t) == {generateAccessToken([userId |-> u.id, email |-> u.email], t) : u \in users}

InvalidRefresh == ErrorResp(401, "Invalid refresh token")

\* C5: token classes never cross.  A refresh token of the service presented
\* as the bearer credential is answered 401 'Invalid access token' by the
\* gate; an access token of the service presented to POST /token/refresh
\* is answered 401 'Invalid refresh token', and no access token is issued.
C5_TokenClassesNeverCross ==
    /\ \A tok \in RefreshTokensAt(now) \cup {h \in held : h.sig = JWT_REFRESH_SECRET} :
          LET g == authenticateToken(Header("Bearer", <<tok>>), now)
          IN ~g.next /\ g.resp = TokenInvalid
    /\ \A tok \in AccessTokensAt(now) \cup {h \in held : h.sig = JWT_ACCESS_SECRET} :
          refreshHandler([refreshToken |-> tok], now) = InvalidRefresh
    /\ (last.ep \in TradeEps /\ BearerForm(last.req.header)
            /\ last.req.header.parts[1].sig = JWT_REFRESH_SECRET)
          => last.resp = TokenInvalid
    /\ (last.ep = "refresh" /\ "refreshToken" \in DOMAIN last.req
            /\ last.req.refreshToken.sig = JWT_ACCESS_SECRET)
          => last.resp = InvalidRefresh /\ TokensOf(last) = {}

\* an unexpired access token the client was given, sent to POST /token/refresh
C5_Witness ==
    /\ last.ep = "refresh"
    /\ "refreshToken" \in DOMAIN last.req
    /\ last.req.refreshToken \in held
    /\ last.req.refreshToken.sig = JWT_ACCESS_SECRET
    /\ now < last.req.refreshToken.exp
    /\ last.resp = InvalidRefresh

\* the signup requests for e-mail e that have been answered
SignupsDone(e) == {s \in 1..MaxSignups : signups[s].pc = "done" /\ signups[s].email = e}

C6_Accounts ==
    /\ \A e \in Emails :
          LET created == {s \in SignupsDone(e) : signups[s].status = 201}
          IN /\ Cardinality(findUserByEmail(e)) <= 1
             /\ Cardinality(created) = Cardinality(findUserByEmail(e))
             /\ \A s \in SignupsDone(e) : signups[s].status \in {201, 409}
             /\ SignupsDone(e) # {} => Cardinality(created) = 1
    /\ (last.ep = "signup" /\ last.resp.status = 409) =>
          (DOMAIN last.resp.body) \cap {"user", "accessToken", "refreshToken"} = {}

C6_Frame ==
    (last' # last /\ last'.ep = "signup" /\ last'.resp.status = 409) => users' = users

\* C6: signups with the same e-mail, in any interleaving.  Once any of
\* them has been answered, exactly one account with that e-mail exists and
\* exactly one of the answered requests got 201; every other answer is 409,
\* carries no tokens and leaves the user store as it was.
C6_OneAccountPerEmail == []C6_Accounts /\ [][C6_Frame]_vars

\* two signups with the same e-mail both passed the existence check; the
\* one that lost the race at the unique index has been answered
C6_Witness ==
    /\ \E s1, s2 \in 1..MaxSignups :
          /\ s1 # s2
          /\ signups[s1].pc = "done" /\ signups[s2].pc = "done"
          /\ signups[s1].email = signups[s2].email
          /\ signups[s1].status = 201 /\ signups[s2].status = 409
    /\ last.ep = "signup"
    /\ last.resp.status = 409
    /\ last.resp.body.error = "Unique constraint violation"

\* C7: a successful signup (201) or login (200) returns tokens bound to
\* the account it names.  The account is in the user store under the
\* e-mail of the request; the response's user is that account's id and
\* e-mail and nothing else; the access token verifies under the access
\* secret to that id and e-mail; the refresh token verifies under the
\* refresh secret to that id and no e-mail.
C7_TokensBoundToAccount ==
    (last.ep \in {"signup", "login"} /\ last.resp.status \in {200, 201}) =>
        LET b == last.resp.body
            a == verifyAccessToken(b.accessToken, now)
            r == verifyRefreshToken(b.refreshToken, now)
        IN /\ last.resp.status = (IF last.ep = "signup" THEN 201 ELSE 200)
           /\ \E u \in users :
                 /\ u.email = last.req.email
                 /\ b.user = [id |-> u.id, email |-> u.email]
                 /\ a.ok /\ a.decoded = [userId |-> u.id, email |-> u.email]
                 /\ r.ok /\ r.decoded = [userId |-> u.id]

\* the second account logs in while another account exists
C7_Witness ==
    /\ last.ep = "login"
    /\ last.resp.status = 200
    /\ Cardinality(users) = 2
    /\ last.resp.body.user.id = 2

\* logins that pass validation: with an e-mail that has no account, and
\* with the e-mail of an account and a password that is not the account's
NoAccountLogin(body) == loginSchema(body) /\ \A u \in users : u.email # body.email
WrongPasswordLogin(body) ==
    /\ loginSchema(body)
    /\ \E u \in users : u.email = body.email /\ u.password # bcryptHash(body.password)

BadCredentials == ErrorResp(401, "Invalid email or password")

\* C8: login is enumeration resistant.  In every state of the store, the
\* logins with a known e-mail and a wrong password and the logins with an
\* unknown e-mail all get one and the same response, status and body:
\* 401 'Invalid email or password', without tokens.
C8_EnumerationResistance ==
    /\ {loginHandler(b, now) : b \in {x \in LoginBodies : WrongPasswordLogin(x) \/ NoAccountLogin(x)}}
          \subseteq {BadCredentials}
    /\ (last.ep = "login" /\ (WrongPasswordLogin(last.req) \/ NoAccountLogin(last.req)))
          => last.resp = BadCredentials /\ TokensOf(last) = {}

\* a login with a wrong password has been answered while another e-mail
\* has no account
C8_Witness ==
    /\ last.ep = "login"
    /\ WrongPasswordLogin(last.req)
    /\ \E b \in LoginBodies : NoAccountLogin(b)
    /\ last.resp = BadCredentials

\* a refresh token of the service that is within its lifetime at time t
LiveRefreshToken(tok, t) ==
    tok.kind = "jwt" /\ tok.sig = JWT_REFRESH_SECRET /\ t < tok.exp

\* the response C9 describes for refresh token tok at time t
Refreshed(tok, t) ==
    LET user == CHOOSE u \in users : u.id = tok.payload.userId
    IN Resp(200, [accessToken |-> [kind |-> "jwt", sig |-> JWT_ACCESS_SECRET,
                                   payload |-> [userId |-> user.id, email |-> user.email],
                                   exp |-> t + JWT_ACCESS_EXPIRY, nbf |-> NoNbf]])

C9_Accepted ==
    /\ \A tok \in held :
          (LiveRefreshToken(tok, now) /\ \E u \in users : u.id = tok.payload.userId)
              => refreshHandler([refreshToken |-> tok], now) = Refreshed(tok, now)
    /\ (last.ep = "refresh" /\ last.resp.status = 200) =>
          /\ DOMAIN last.resp.body = {"accessToken"}
          /\ LiveRefreshToken(last.req.refreshToken, now)
          /\ last.resp = Refreshed(last.req.refreshToken, now)
          /\ verifyAccessToken(last.resp.body.accessToken, now).ok

\* the step that answers a refresh with 200 leaves the service in a state
\* where the same request gets the same answer again
C9_NotUsedUp ==
    (last' # last /\ last'.ep = "refresh" /\ last'.resp.status = 200)
        => (refreshHandler(last.req, now))' = last'.resp

\* C9: a successful refresh returns a body with only a new access token,
\* for the id and current e-mail of the token's account, and does not use
\* up the refresh token: it is accepted again right after the refresh, and
\* every refresh token the client holds, used before or not, is accepted at
\* every instant before its expiry while its account is in the user store.
C9_RefreshKeepsToken == []C9_Accepted /\ [][C9_NotUsedUp]_vars

\* a held refresh token has just been accepted, at an instant after the one
\* it was issued at
C9_Witness ==
    /\ last.ep = "refresh"
    /\ last.resp.status = 200
    /\ last.req.refreshToken \in held
    /\ now > last.req.refreshToken.exp - JWT_REFRESH_EXPIRY

RefreshRequired == ErrorResp(401, "Refresh token required")
RefreshExpired == ErrorResp(401, "Refresh token expired")
UserNotFound == ErrorResp(401, "User not found")

\* C10: the failures of POST /token/refresh.  Without a refreshToken in
\* the body: 401 'Refresh token required'; a refresh token of the service
\* past its expiry: 401 'Refresh token expired'; a malformed or wrongly
\* signed token: 401 'Invalid refresh token'; a live refresh token whose
\* account is not in the user store: 401 'User not found'.  Every failure
\* is a 401 and issues no token.
C10_RefreshFailures ==
    last.ep = "refresh" =>
        /\ last.resp.status \in {200, 401}
        /\ last.resp.status = 401 => TokensOf(last) = {}
        /\ IF "refreshToken" \notin DOMAIN last.req THEN last.resp = RefreshRequired
           ELSE LET tok == last.req.refreshToken
                IN /\ tok.kind = "empty" => last.resp = RefreshRequired
                   /\ (tok.kind = "jwt" /\ tok.sig = JWT_REFRESH_SECRET /\ now >= tok.exp)
                        => last.resp = RefreshExpired
                   /\ (tok.kind = "malformed" \/ (tok.kind = "jwt" /\ tok.sig # JWT_REFRESH_SECRET))
                        => last.resp = InvalidRefresh
                   /\ (LiveRefreshToken(tok, now) /\ \A u \in users : u.id # tok.payload.userId)
                        => last.resp = UserNotFound

\* a live refresh token of a deleted account has been refused
C10_Witness ==
    /\ last.ep = "refresh"
    /\ "refreshToken" \in DOMAIN last.req
    /\ last.req.refreshToken \in held
    /\ LiveRefreshToken(last.req.refreshToken, now)
    /\ last.resp = UserNotFound

\* the request in `last` went through the gate
Authenticated == last.ep \in TradeEps /\ authenticateToken(last.req.header, now).next

\* the headers a client can send now that the gate lets through
PassingHeaders == {h \in Headers : authenticateToken(h, now).next}

C11_Base == TradeBody("buy", 1, "AAPL", 50, Number(150, 2))

\* C11_Base without one of its keys
C11_Without(key) == [k \in (DOMAIN C11_Base) \ {key} |-> C11_Base[k]]

\* bodies that break one input constraint each
C11_Rejected ==
    {[C11_Base EXCEPT !.type = t] : t \in {"hold", "BUY", "buy ", ""}}
    \cup {[C11_Base EXCEPT !.user_id = n] : n \in {Number(0, 0), Number(-1, 0), Number(1, 5)}}
    \cup {[C11_Base EXCEPT !.symbol = ""]}
    \cup {[C11_Base EXCEPT !.shares = n] :
             n \in {Number(0, 0), Number(101, 0), Number(150, 0), Number(-1, 0),
                    Number(1, 5), Number(100, 5), Number(0, 5)}}
    \cup {[C11_Base EXCEPT !.price = n] : n \in {Number(0, 0), Number(-1, 0), Number(-1, 5)}}
    \cup {C11_Without(key) : key \in DOMAIN C11_Base}
    \cup {[type |-> "buy"]}

\* the boundary values of shares
C11_Boundary == {[C11_Base EXCEPT !.shares = n] : n \in {Number(1, 0), Number(100, 0)}}

\* C11: an authenticated POST /trades whose body breaks an input constraint
\* (type other than 'buy' and 'sell', user_id not a positive integer, symbol
\* missing, shares not an integer in 1..100, price not positive, a required
\* field missing) is answered 400 'Validation failed' and writes nothing;
\* with shares = 1 or shares = 100 and the rest valid it is not answered 400.
C11_TradeValidation ==
    /\ \A h \in PassingHeaders :
          /\ \A body \in C11_Rejected \cup BadBodies :
                postTrade(h, body, now) = [resp |-> ValidationFailed, trades |-> trades]
          /\ \A body \in C11_Boundary : postTrade(h, body, now).resp.status # 400
    /\ (Authenticated /\ last.ep = "POST /trades")
          => (last.resp = ValidationFailed <=> last.req.input \in BadBodies)

\* an authenticated POST with shares = 101 has been answered 400
C11_Witness ==
    /\ Authenticated
    /\ last.ep = "POST /trades"
    /\ last.req.input = TradeBody("buy", 1, "AAPL", 101, Number(150, 0))
    /\ last.resp = ValidationFailed
    /\ \E u \in users : u.id = 1

ModificationRefused == MethodNotAllowed("Trade modification is not permitted")
DeletionRefused == MethodNotAllowed("Trade deletion is not permitted")

\* every PUT, PATCH and DELETE that passes the gate is answered 405, for
\* every id, and hands the table back as it is
C12_Refused ==
    /\ \A h \in PassingHeaders, id \in TradeIds :
          /\ putTrade(h, id, now) = [resp |-> ModificationRefused, trades |-> trades]
          /\ deleteTrade(h, id, now) = [resp |-> DeletionRefused, trades |-> trades]
    /\ (Authenticated /\ last.ep \in {"PUT /trades/:id", "PATCH /trades/:id"})
          => last.resp = ModificationRefused
    /\ (Authenticated /\ last.ep = "DELETE /trades/:id") => last.resp = DeletionRefused

\* the step that answers such a request leaves the table as it was, and a
\* GET /trades/:id sent next returns every record as it was before
C12_Frame ==
    (last' # last /\ last'.ep \in {"PUT /trades/:id", "PATCH /trades/:id", "DELETE /trades/:id"})
        => /\ trades' = trades
           /\ \A h \in PassingHeaders, id \in 1..Len(trades) :
                 getTradeById(h, Number(id, 0), now)' = Resp(200, tradeResponse(trades[id]))

C13_Queries ==
    {[none |-> TRUE]}
    \cup {[type |-> ty] : ty \in TradeTypes}
    \cup {[user_id |-> Number(u, 0)] : u \in 1..(MaxSignups + 1)}
    \cup {[type |-> ty, user_id |-> Number(u, 0)] : ty \in TradeTypes, u \in 1..(MaxSignups + 1)}

\* the rows of the table that meet every filter of the query
C13_Matching(query) ==
    {i \in 1..Len(trades) :
        /\ "type" \in DOMAIN query => trades[i].type = query.type
        /\ "user_id" \in DOMAIN query => trades[i].userId = query.user_id.i}

\* resp lists the matching records, each once, in ascending id order
C13_Lists(resp, query) ==
    /\ resp.status = 200
    /\ Len(resp.body) = Cardinality(C13_Matching(query))
    /\ {resp.body[k] : k \in 1..Len(resp.body)}
          = {tradeResponse(trades[i]) : i \in C13_Matching(query)}
    /\ \A j, k \in 1..Len(resp.body) : j < k => resp.body[j].id < resp.body[k].id

C13_Listing ==
    /\ \A h \in PassingHeaders, query \in C13_Queries : C13_Lists(getTrades(h, query, now), query)
    /\ (Authenticated /\ last.ep = "GET /trades" /\ last.req.input \in C13_Queries)
          => C13_Lists(last.resp, last.req.input)

C13_Frame ==
    (last' # last /\ last'.ep = "GET /trades") => trades' = trades /\ users' = users

\* C13: an authenticated GET /trades returns exactly the stored records that
\* match every filter given (all records without filter), each once, in
\* strictly ascending id order, and does not change the store.
C13_ListMatchesFilters == []C13_Listing /\ [][C13_Frame]_vars

\* two records of one account, a buy and a sell; the list filtered by type
\* and account holds one of them
C13_Witness ==
    /\ Authenticated
    /\ last.ep = "GET /trades"
    /\ last.req.input = [type |-> "sell", user_id |-> Number(1, 0)]
    /\ Len(trades) = 2
    /\ trades[1].type = "buy" /\ trades[1].userId = 1
    /\ Len(last.resp.body) = 1
    /\ last.resp.body[1].id = 2

TradeNotFound == ErrorResp(404, "Trade not found")

\* ids to look up: integers from -1 up to one past the newest record, and
\* numbers that are not integers
C14_Ids ==
    {Number(i, 0) : i \in (-1)..(MaxTrades + 1)}
    \cup {Number(0, 5), Number(1, 5), Number(-1, 5)}

\* the answer to GET /trades/:id that the claim asks for
C14_Answers(resp, id) ==
    IF id.f # 0 \/ id.i <= 0 THEN resp.status = 400
    ELSE IF \E i \in 1..Len(trades) : trades[i].id = id.i
         THEN LET row == CHOOSE r \in {trades[i] : i \in 1..Len(trades)} : r.id = id.i
              IN resp = Resp(200, [id |-> row.id, type |-> row.type, user_id |-> row.userId,
                                   symbol |-> row.symbol, shares |-> row.shares,
                                   price |-> row.price, timestamp |-> row.timestamp])
         ELSE resp = TradeNotFound

\* the bearer headers of the tokens held that the gate lets through now
C14_Bearers ==
    {h \in {Header("Bearer", <<tok>>) : tok \in held} : authenticateToken(h, now).next}

C14_Lookup ==
    /\ \A h \in C14_Bearers, id \in C14_Ids : C14_Answers(getTradeById(h, id, now), id)
    /\ (Authenticated /\ last.ep = "GET /trades/:id") => C14_Answers(last.resp, last.req.input)

\* the response of the POST that created a record is what a GET of its id
\* returns from then on, timestamp included; a GET writes nothing
C14_Frame ==
    /\ (last' # last /\ last'.ep = "POST /trades" /\ last'.resp.status = 201)
          => \A h \in C14_Bearers, id \in 1..(Len(trades) + 1) :
                id = last'.resp.body.id
                   => getTradeById(h, Number(id, 0), now)' = Resp(200, last'.resp.body)
    /\ \A h \in C14_Bearers, i \in 1..Len(trades) :
          authenticateToken(h, now)'.next
             => getTradeById(h, Number(i, 0), now)' = getTradeById(h, Number(i, 0), now)
    /\ (last' # last /\ last'.ep = "GET /trades/:id") => trades' = trades /\ users' = users

\* C14: an authenticated GET /trades/:id returns 200 with the record of
\* that id, field for field what the POST that created it returned
\* (timestamp included); 404 'Trade not found' for a positive integer
\* without record; 400 for an id that is not a positive integer; and never
\* changes the store.
C14_GetById == []C14_Lookup /\ [][C14_Frame]_vars

\* after a tick, the record created earlier is returned with the timestamp
\* of its creation
C14_Witness ==
    /\ Authenticated
    /\ last.ep = "GET /trades/:id"
    /\ last.resp.status = 200
    /\ last.resp.body.timestamp < now

\* the uppercase form of the symbols that are sent
C15_Uppercase == [s \in {"aapl", "Goog", "AAPL"} |->
                    IF s = "aapl" THEN "AAPL" ELSE IF s = "Goog" THEN "GOOG" ELSE "AAPL"]

\* every stored symbol is in uppercase
C15_Stored == \A i \in 1..Len(trades) : trades[i].symbol \in {"AAPL", "GOOG"}

\* a trade created with symbol s carries uppercase(s) in the create
\* response, in the store, and in what the two GET routes return next
C15_Created ==
    (last' # last /\ last'.ep = "POST /trades" /\ last'.resp.status = 201)
        => LET upper == C15_Uppercase[last'.req.input.symbol]
           IN /\ last'.resp.body.symbol = upper
              /\ Len(trades') = Len(trades) + 1
              /\ trades'[Len(trades')].symbol = upper
              /\ \A h \in PassingHeaders, id \in {Len(trades) + 1} :
                    /\ getTradeById(h, Number(id, 0), now)'.body.symbol = upper
                    /\ LET list == getTrades(h, [none |-> TRUE], now)'.body
                       IN list[Len(list)].symbol = upper

\* C15: every record in the store has a symbol equal to its own uppercase
\* form; a trade created with symbol s is returned by the create response,
\* by GET /trades/:id and by GET /trades with uppercase(s); an uppercase
\* symbol is stored unchanged.
C15_SymbolNormalised == []C15_Stored /\ [][C15_Created]_vars

\* a trade sent with symbol 'Goog' has been created as 'GOOG'
C15_Witness ==
    /\ last.ep = "POST /trades"
    /\ last.resp.status = 201
    /\ last.req.input.symbol = "Goog"
    /\ last.resp.body.symbol = "GOOG"
    /\ trades[Len(trades)].symbol = "GOOG"

\* C16 (as claimed): every response to POST /trades has status 201, 400 or
\* 401, whoever calls and whatever the payload and the stores hold; an
\* authenticated request whose payload passes validation is answered 201
\* with the persisted record and an integer timestamp.
C16_PostStatuses ==
    last.ep = "POST /trades" =>
        /\ last.resp.status \in {201, 400, 401}
        /\ (Authenticated /\ createTradeSchema(last.req.input))
              => /\ last.resp.status = 201
                 /\ Len(trades) > 0
                 /\ last.resp.body = tradeResponse(trades[Len(trades)])
                 /\ last.resp.body.timestamp \in 0..MaxTime

\* the plaintext passwords that are sent
C17_Plaintexts == {Password1, Password2, ShortPassword, <<>>}

\* a token carries the account's id and e-mail at most
C17_TokenClean(tok) ==
    \E u \in users : tok.payload \in {[userId |-> u.id, email |-> u.email], [userId |-> u.id]}

\* the body of an error response: one of the fixed messages, or the message
\* of the store error
C17_ErrorClean(body) ==
    /\ DOMAIN body \subseteq {"error", "details", "message"}
    /\ body.error \in {"Validation failed", "User with this email already exists",
                       "Unique constraint violation", "Invalid email or password",
                       "Refresh token required", "Refresh token expired",
                       "Invalid refresh token", "User not found",
                       "Access token required", "Access token expired",
                       "Invalid access token", "Trade not found", "Method not allowed",
                       "Foreign key constraint failed"}

\* the fields of a trade in API format
C17_TradeClean(body) ==
    DOMAIN body = {"id", "type", "user_id", "symbol", "shares", "price", "timestamp"}

\* no field of the response holds a password or a hash: the response is an
\* error message, or the account's id and e-mail with tokens, or trades
C17_ResponseClean ==
    ~Idle =>
        LET body == last.resp.body
        IN IF last.resp.status >= 400 THEN C17_ErrorClean(body)
           ELSE IF last.ep \in {"signup", "login"}
                THEN /\ DOMAIN body = {"message", "user", "accessToken", "refreshToken"}
                     /\ body.message \in {"User created successfully", "Login successful"}
                     /\ \E u \in users : body.user = [id |-> u.id, email |-> u.email]
                     /\ C17_TokenClean(body.accessToken) /\ C17_TokenClean(body.refreshToken)
           ELSE IF last.ep = "refresh"
                THEN DOMAIN body = {"accessToken"} /\ C17_TokenClean(body.accessToken)
           ELSE IF last.ep = "GET /trades"
                THEN \A i \in 1..Len(body) : C17_TradeClean(body[i])
           ELSE C17_TradeClean(body)

\* the stored credential is a hash and not a plaintext
C17_StoredHashed ==
    \A u \in users : u.password \notin C17_Plaintexts /\ Head(u.password) = 0

\* the account a signup creates stores the hash of the password sent
C17_HashOfSignupPassword ==
    (last' # last /\ last'.ep = "signup" /\ last'.resp.status = 201)
        => \E u \in users' \ users :
              /\ u.email = last'.req.email
              /\ u.password = bcryptHash(last'.req.password)
              /\ u.password # last'.req.password

\* C17: no response of any endpoint contains an account's password hash or
\* a plaintext password, and the credential stored for an account is the
\* hash of the signup password, never the plaintext.
C17_NoPasswordLeaves ==
    [](C17_ResponseClean /\ C17_StoredHashed) /\ [][C17_HashOfSignupPassword]_vars

\* a login with the right password has been answered
C17_Witness ==
    /\ last.ep = "login"
    /\ last.resp.status = 200
    /\ \E u \in users : u.email = last.req.email /\ u.password = bcryptHash(last.req.password)

\* the errors the handler knows: store conflict, store not-found, JWT errors
C18_Recognised(err) ==
    \/ err.code \in {"P2002", "P2025"}
    \/ err.name \in {"JsonWebTokenError", "TokenExpiredError"}

\* C18 (as claimed): an error that reaches the global error handler and is
\* not a recognised store conflict, store not-found or JWT error is answered
\* 500, whatever fields it carries; the body has a stack field exactly when
\* NODE_ENV is 'development'.
C18_UnknownErrorsAre500 ==
    (last.ep = "error" /\ ~C18_Recognised(last.req.err))
        => /\ last.resp.status = 500
           /\ "stack" \in DOMAIN last.resp.body <=> last.req.env = "development"

\* C19: fail fast, no partial writes.  A step that answers a request with
\* 400 or 401, on any route, leaves the user store and the trade store as
\* they were: no account and no trade is created, changed or removed.
C19_FailFast ==
    [][(last' # last /\ last'.resp.status \in {400, 401})
          => users' = users /\ nextUserId' = nextUserId /\ trades' = trades]_vars

\* with an account and a trade in the stores, a POST /trades has been
\* answered 400
C19_Witness ==
    /\ last.ep = "POST /trades"
    /\ last.resp.status = 400
    /\ users # {}
    /\ Len(trades) > 0

\* the access tokens the service can issue, for accounts in the store or
\* not, and the tokens made up by a client
C20_Tokens ==
    {generateAccessToken([userId |-> id, email |-> "a@b.com"], t) :
        id \in 1..MaxSignups, t \in 0..MaxTime}
    \cup ForeignToks

\* the gate's outcome is the one the token and the clock alone determine,
\* whatever the stores hold and whatever has been requested before
C20_OutcomeOfToken ==
    \A tok \in C20_Tokens \cup held :
        LET g == authenticateToken(Header("Bearer", <<tok>>), now)
        IN IF GateAnswer(tok, now) = NoAnswer.resp
           THEN g = [next |-> TRUE, user |-> tok.payload]
           ELSE g = [next |-> FALSE, resp |-> GateAnswer(tok, now)]

\* no step changes the outcome of a header while the clock stands, and a
\* token that is accepted stays accepted by every step that does not take
\* the clock to its expiry: a login, a refresh, the removal of its account
C20_Step ==
    \A tok \in held :
        LET h == Header("Bearer", <<tok>>)
        IN /\ now' = now => authenticateToken(h, now)' = authenticateToken(h, now)
           /\ (authenticateToken(h, now).next /\ now' < tok.exp) => authenticateToken(h, now)'.next

\* C20: the Auth Gate is stateless.  Its outcome is determined by the
\* Authorization header, the access secret and the current time: the same
\* token at the same instant gets the same outcome in any two stores and
\* after any two histories; an access token stays accepted until its expiry
\* after later logins and refreshes and after its account has been removed.
C20_GateStateless == []C20_OutcomeOfToken /\ [][C20_Step]_vars

\* the access token of an account that is no longer in the store has been
\* accepted by a trade route
C20_Witness ==
    /\ Authenticated
    /\ last.resp.status = 200
    /\ BearerForm(last.req.header)
    /\ last.req.header.parts[1] \in held
    /\ \A u \in users : u.id # last.req.header.parts[1].payload.userId

\* bearer headers with the unexpired access tokens of the accounts in the store
C21_Callers ==
    {Header("Bearer", <<tok>>) :
        tok \in {a \in UNION {AccessTokensAt(t) : t \in 0..now} : now < a.exp}}

\* the same request gets the same response and has the same effect on the
\* store, whichever account's token it carries
C21_SameForEveryCaller ==
    \A h1, h2 \in C21_Callers :
        h1.parts[1].payload.userId < h2.parts[1].payload.userId =>
        /\ \A body \in TradeBodies : postTrade(h1, body, now) = postTrade(h2, body, now)
        /\ \A query \in TradeQueries : getTrades(h1, query, now) = getTrades(h2, query, now)
        /\ \A id \in TradeIdParams : getTradeById(h1, id, now) = getTradeById(h2, id, now)

\* a caller whose payload names another existing account gets 201 and the
\* trade is persisted for that account
C21_OtherAccount ==
    (/\ last.ep = "POST /trades"
     /\ last.req.header \in C21_Callers
     /\ createTradeSchema(last.req.input)
     /\ \E u \in users : u.id = last.req.input.user_id.i)
        => /\ last.resp.status = 201
           /\ last.resp.body.user_id = last.req.input.user_id.i
           /\ Len(trades) > 0
           /\ trades[Len(trades)].userId = last.req.input.user_id.i

\* C21: trade operations do not depend on which account holds the token.
\* For two valid unexpired access tokens of different accounts, the same
\* POST /trades, GET /trades or GET /trades/:id gets the same response and
\* has the same effect on the store; a caller authenticated as account A
\* whose payload names another existing account B gets 201 and a trade of B
\* is persisted.
C21_CallerIndependent == C21_SameForEveryCaller /\ C21_OtherAccount

\* with two accounts in the store, the token of one has created a trade of
\* the other
C21_Witness ==
    /\ last.ep = "POST /trades"
    /\ last.resp.status = 201
    /\ last.req.header \in C21_Callers
    /\ Cardinality(C21_Callers) >= 2
    /\ last.req.header.parts[1].payload.userId # last.req.input.user_id.i
    /\ trades[Len(trades)].userId = last.req.input.user_id.i

=============================================================================
